---- MODULE Spec2Model ----
(***************************************************************************)
(* Planner / Executor / Responder workflow of AutonomousLangGraphAgent     *)
(* (src/backend/agents/autonomous_langgraph_agent.py) together with the    *)
(* in-memory session store of answer_questions.                            *)
(*                                                                         *)
(* Texts are modelled by what the code does with them:                     *)
(*  - a request is a string whose characters are given by Chars, so that   *)
(*    lower() and the substring test `word in question_lower` are computed *)
(*    on characters;                                                       *)
(*  - a model reply to the planner is a record that says what surrounds    *)
(*    the JSON text and whether json.loads accepts it;                     *)
(*  - any other text is a sequence of tokens, concatenated with \o.        *)
(* A Python dict is a record with a field `keys` (the keys present) next   *)
(* to the values, so that dict.get(key, default) is computed.              *)
(***************************************************************************)
EXTENDS Integers, Sequences, FiniteSets, TLC

VARIABLES
    session_histories,  \* self.session_histories: session key -> messages
    pc,                 \* per caller: position inside answer_questions
    st,                 \* per caller: the AgentState threaded through the graph
    ret,                \* per caller: what the last answer_questions returned
    calls,              \* per caller: capabilities invoked in the current run
    llm_calls,          \* per caller: model calls made in the current run
    results,            \* per caller: the local list `results` of _executor_node
    run_log,            \* every finished run: thread, question, outcome
    next_id,            \* next fresh message id (uuid4 of add_messages)
    runs,               \* number of answer_questions calls started
    active_learning_sessions,  \* tools_registry.active_learning_sessions: user -> session info
    user_performance,   \* table user_performance: <<user, topic>> -> counters
    accepted_answers    \* <<user, topic>> -> answers submit_practice_answer accepted

agent_vars == <<session_histories, pc, st, ret, calls, llm_calls, results, run_log, next_id, runs>>

practice_vars == <<active_learning_sessions, user_performance, accepted_answers>>

vars == <<agent_vars, practice_vars>>

----------------------------------------------------------------------------
(* Bounds *)

MaxRuns == 2            \* answer_questions calls per behaviour
MaxInvocations == 3     \* entries of tools_to_use in a model-made plan
MaxAnswers == 3         \* answers accepted by submit_practice_answer per behaviour
PlanRuns == 1           \* answer_questions calls where the inputs of one run vary
ConcurrentRuns == 2     \* answer_questions calls that may overlap in time

----------------------------------------------------------------------------
(* Characters of the strings the code inspects character-wise *)

Chars ==
       "I want to practice a question" :>
         <<"I"," ","w","a","n","t"," ","t","o"," ","p","r","a","c","t","i","c","e"," ","a"," ","q","u","e","s","t","i","o","n">> @@
       "show me my progress" :>
         <<"s","h","o","w"," ","m","e"," ","m","y"," ","p","r","o","g","r","e","s","s">> @@
       "translate this to French" :>
         <<"t","r","a","n","s","l","a","t","e"," ","t","h","i","s"," ","t","o"," ","F","r","e","n","c","h">> @@
       "explain English vocabulary" :>
         <<"e","x","p","l","a","i","n"," ","E","n","g","l","i","s","h"," ","v","o","c","a","b","u","l","a","r","y">> @@
       "Practice grammar and progress" :>
         <<"P","r","a","c","t","i","c","e"," ","g","r","a","m","m","a","r"," ","a","n","d"," ","p","r","o","g","r","e","s","s">> @@
       "my english performance" :>
         <<"m","y"," ","e","n","g","l","i","s","h"," ","p","e","r","f","o","r","m","a","n","c","e">> @@
       "restart" :>
         <<"r","e","s","t","a","r","t">> @@
       "start with grammar" :>
         <<"s","t","a","r","t"," ","w","i","t","h"," ","g","r","a","m","m","a","r">> @@
       "question my progress" :>
         <<"q","u","e","s","t","i","o","n"," ","m","y"," ","p","r","o","g","r","e","s","s">> @@
       "u1" :> <<"u","1">> @@
       "u2" :> <<"u","2">> @@
       "u1_s" :> <<"u","1","_","s">> @@
       "s" :> <<"s">> @@
       "s_t" :> <<"s","_","t">> @@
       "t" :> <<"t">> @@
       "default" :> <<"d","e","f","a","u","l","t">>

UpperToLower ==
    "A" :> "a" @@ "B" :> "b" @@ "C" :> "c" @@ "D" :> "d" @@ "E" :> "e" @@
    "F" :> "f" @@ "G" :> "g" @@ "H" :> "h" @@ "I" :> "i" @@ "J" :> "j" @@
    "K" :> "k" @@ "L" :> "l" @@ "M" :> "m" @@ "N" :> "n" @@ "O" :> "o" @@
    "P" :> "p" @@ "Q" :> "q" @@ "R" :> "r" @@ "S" :> "s" @@ "T" :> "t" @@
    "U" :> "u" @@ "V" :> "v" @@ "W" :> "w" @@ "X" :> "x" @@ "Y" :> "y" @@
    "Z" :> "z"

\* str.lower()
lower(cs) ==
    [i \in 1..Len(cs) |-> IF cs[i] \in DOMAIN UpperToLower THEN UpperToLower[cs[i]] ELSE cs[i]]

\* `word in text` on strings: word occurs as a contiguous substring
contains(cs, word) ==
    \E i \in 0..(Len(cs) - Len(word)) : SubSeq(cs, i + 1, i + Len(word)) = word

\* the first keyword list without "practice" and "question"
PracticeWordsStartOnly == { <<"s","t","a","r","t">> }

\* the three keyword lists of _fallback_plan
PracticeWords ==
    { <<"p","r","a","c","t","i","c","e">>, <<"q","u","e","s","t","i","o","n">>,
      <<"s","t","a","r","t">> }

ProgressWords ==
    { <<"p","r","o","g","r","e","s","s">>, <<"p","e","r","f","o","r","m","a","n","c","e">> }

EnglishWords ==
    { <<"g","r","a","m","m","a","r">>, <<"e","n","g","l","i","s","h">>,
      <<"v","o","c","a","b","u","l","a","r","y">> }

\* any(word in question_lower for word in words)
any_word_in(words, question_lower) == \E w \in words : contains(question_lower, w)

----------------------------------------------------------------------------
(* Dicts of the plan *)

\* a dict of string parameters is a function from its keys
EmptyParams == [k \in {} |-> ""]

\* parameters of a tools_to_use entry; is_map = FALSE stands for a JSON value
\* that is not an object (a number, a string, a list, null)
Params(m) == [is_map |-> TRUE, map |-> m]

NotAMap == [is_map |-> FALSE, map |-> EmptyParams]

\* one element of tools_to_use; is_dict = FALSE stands for a JSON value that
\* is not an object
Entry(ks, name, params, reason) ==
    [is_dict |-> TRUE, keys |-> ks, tool_name |-> name, parameters |-> params,
     reason |-> reason]

NotAnObject ==
    [is_dict |-> FALSE, keys |-> {}, tool_name |-> "", parameters |-> NotAMap,
     reason |-> ""]

AllEntryKeys == {"tool_name", "parameters", "reason"}

\* the plan dict; tools_is_list = FALSE stands for a truthy tools_to_use
\* without len() (a number)
Plan(ks, needs, reasoning, is_list, tools) ==
    [keys |-> ks, needs_tools |-> needs, reasoning |-> reasoning,
     tools_is_list |-> is_list, tools_to_use |-> tools]

AllPlanKeys == {"needs_tools", "reasoning", "tools_to_use"}

\* plan=None of the initial state
NoPlan == Plan({}, FALSE, "", TRUE, <<>>)

\* plan.get("needs_tools", False)
get_needs_tools(plan) == IF "needs_tools" \in plan.keys THEN plan.needs_tools ELSE FALSE

\* plan.get("tools_to_use") / plan.get("tools_to_use", []) as a list
get_tools_to_use(plan) ==
    IF "tools_to_use" \in plan.keys /\ plan.tools_is_list THEN plan.tools_to_use ELSE <<>>

\* truth value of plan.get("tools_to_use")
tools_truthy(plan) ==
    /\ "tools_to_use" \in plan.keys
    /\ (~plan.tools_is_list \/ plan.tools_to_use # <<>>)

----------------------------------------------------------------------------
(* _fallback_plan *)

\* a fallback that answers from the number of calls made so far as well
fallback_plan_by_call_count(user_question) ==
    IF runs > 1
    THEN [keys |-> {"needs_tools", "reasoning", "tools_to_use"}, needs_tools |-> FALSE,
          reasoning |-> "Fallback: General question, no tools needed",
          tools_is_list |-> TRUE, tools_to_use |-> <<>>]
    ELSE [keys |-> {"needs_tools", "reasoning", "tools_to_use"}, needs_tools |-> TRUE,
          reasoning |-> "Fallback: Detected progress request",
          tools_is_list |-> TRUE,
          tools_to_use |-> << Entry({"tool_name", "parameters", "reason"},
                                    "get_learning_progress",
                                    Params([user_id |-> "fallback"]),
                                    "User wants to see progress") >>]

\* _fallback_plan with the progress test moved before the practice test
fallback_plan_progress_first(user_question) ==
    LET question_lower == lower(Chars[user_question]) IN
    IF any_word_in(ProgressWords, question_lower) THEN
        Plan(AllPlanKeys, TRUE, "Fallback: Detected progress request", TRUE,
             << Entry(AllEntryKeys, "get_learning_progress",
                      Params([user_id |-> "fallback"]),
                      "User wants to see progress") >>)
    ELSE IF any_word_in(PracticeWords, question_lower) THEN
        Plan(AllPlanKeys, TRUE, "Fallback: Detected practice-related request", TRUE,
             << Entry(AllEntryKeys, "get_practice_question",
                      Params([user_id |-> "fallback", topic |-> "Grammar",
                              difficulty |-> "medium"]),
                      "User wants practice questions") >>)
    ELSE IF any_word_in(EnglishWords, question_lower) THEN
        Plan(AllPlanKeys, TRUE, "Fallback: Detected English learning request", TRUE,
             << Entry(AllEntryKeys, "english_search_document",
                      Params([query |-> user_question, max_results |-> "5"]),
                      "User needs English learning content") >>)
    ELSE
        Plan(AllPlanKeys, FALSE, "Fallback: General question, no tools needed", TRUE, <<>>)

_fallback_plan(user_question) ==
    LET question_lower == lower(Chars[user_question]) IN
    IF any_word_in(PracticeWords, question_lower) THEN
        Plan(AllPlanKeys, TRUE, "Fallback: Detected practice-related request", TRUE,
             << Entry(AllEntryKeys, "get_practice_question",
                      Params([user_id |-> "fallback", topic |-> "Grammar",
                              difficulty |-> "medium"]),
                      "User wants practice questions") >>)
    ELSE IF any_word_in(ProgressWords, question_lower) THEN
        Plan(AllPlanKeys, TRUE, "Fallback: Detected progress request", TRUE,
             << Entry(AllEntryKeys, "get_learning_progress",
                      Params([user_id |-> "fallback"]),
                      "User wants to see progress") >>)
    ELSE IF any_word_in(EnglishWords, question_lower) THEN
        Plan(AllPlanKeys, TRUE, "Fallback: Detected English learning request", TRUE,
             << Entry(AllEntryKeys, "english_search_document",
                      Params([query |-> user_question, max_results |-> "5"]),
                      "User needs English learning content") >>)
    ELSE
        Plan(AllPlanKeys, FALSE, "Fallback: General question, no tools needed", TRUE, <<>>)

----------------------------------------------------------------------------
(* Messages and the add_messages reducer of AgentState.messages *)

\* id = 0 is id=None: a message no reducer has seen yet
HumanMessage(content) == [type |-> "human", content |-> content, id |-> 0]

AIMessage(content) == [type |-> "ai", content |-> content, id |-> 0]

count_new(msgs) == Cardinality({j \in 1..Len(msgs) : msgs[j].id = 0})

\* the reducer gives every message without id a fresh uuid4
assign_ids(msgs, n) ==
    [i \in 1..Len(msgs) |->
        IF msgs[i].id = 0
        THEN [msgs[i] EXCEPT !.id = n + Cardinality({j \in 1..(i - 1) : msgs[j].id = 0})]
        ELSE msgs[i]]

RECURSIVE merge_by_id(_, _)
\* a message of `right` whose id is in `left` replaces it in place, any other
\* message is appended
merge_by_id(left, right) ==
    IF right = <<>> THEN left
    ELSE LET m == Head(right)
             hit == {i \in 1..Len(left) : left[i].id = m.id}
         IN  IF hit # {}
             THEN merge_by_id([i \in 1..Len(left) |-> IF i \in hit THEN m ELSE left[i]],
                              Tail(right))
             ELSE merge_by_id(Append(left, m), Tail(right))

\* messages: Annotated[List[BaseMessage], add_messages]; n is the next fresh id
add_messages(left, right, n) ==
    merge_by_id(assign_ids(left, n), assign_ids(right, n + count_new(left)))

\* for msg in reversed(messages): if isinstance(msg, HumanMessage): ... break
has_human(messages) == \E i \in 1..Len(messages) : messages[i].type = "human"

last_human_content(messages) ==
    LET hs == {i \in 1..Len(messages) : messages[i].type = "human"}
        last == CHOOSE i \in hs : \A j \in hs : j <= i
    IN  messages[last].content

\* a request text is one token: the request string
user_question_of(messages) == last_human_content(messages)[1]

----------------------------------------------------------------------------
(* The model's reply to the planner, and how the planner reads it *)

\* pre/post: what precedes and follows the text between the first '{' and the
\* last '}', " " being whitespace; open/close: whether that '{' and that '}'
\* exist; valid: whether json.loads accepts the stripped text; obj: its value
ReplyText(pre, open, close, valid, obj, post) ==
    [pre |-> pre, open |-> open, close |-> close, valid |-> valid, obj |-> obj,
     post |-> post]

RECURSIVE lstrip(_)
lstrip(toks) ==
    IF toks # <<>> /\ Head(toks) = " " THEN lstrip(Tail(toks)) ELSE toks

RECURSIVE rstrip(_)
rstrip(toks) ==
    IF toks # <<>> /\ toks[Len(toks)] = " " THEN rstrip(SubSeq(toks, 1, Len(toks) - 1))
    ELSE toks

\* response.content.strip()
strip(text) == [text EXCEPT !.pre = lstrip(text.pre), !.post = rstrip(text.post)]

\* a test that accepts an object anywhere in the reply
looks_like_json_anywhere(plan_text) == plan_text.open /\ plan_text.close

\* plan_text.startswith('{') and plan_text.endswith('}')
looks_like_json(plan_text) ==
    /\ plan_text.open /\ plan_text.pre = <<>>
    /\ plan_text.close /\ plan_text.post = <<>>

\* json.loads(plan_text): accepts only a text that is one JSON value
json_loads_ok(plan_text) == plan_text.valid

\* what self.llm.invoke did: raised, or returned a reply
Raised == [raised |-> TRUE, text |-> ReplyText(<<>>, FALSE, FALSE, FALSE, NoPlan, <<>>)]

Returned(text) == [raised |-> FALSE, text |-> text]

\* lines 169-179: the plan the planner parses out of the reply
parsed_plan(plan_text, user_question) ==
    IF looks_like_json(plan_text)
    THEN IF json_loads_ok(plan_text) THEN plan_text.obj ELSE _fallback_plan(user_question)
    ELSE _fallback_plan(user_question)

\* next_action_of without the needs_tools test
next_action_ignoring_needs_tools(plan) ==
    IF tools_truthy(plan) THEN "execute_tools" ELSE "respond_directly"

\* lines 185-190: the branch taken on the parsed plan
next_action_of(plan) ==
    IF get_needs_tools(plan) /\ tools_truthy(plan) THEN "execute_tools"
    ELSE "respond_directly"

\* lines 145-197: plan and next_action the planner leaves in the state
planner_decision(outcome, user_question) ==
    IF outcome.raised
    THEN \* except Exception (line 192): the model call raised
         [plan |-> _fallback_plan(user_question), next_action |-> "execute_tools"]
    ELSE LET plan == parsed_plan(strip(outcome.text), user_question) IN
         IF next_action_of(plan) = "execute_tools" /\ ~plan.tools_is_list
         THEN \* len(plan['tools_to_use']) raises TypeError inside the try
              [plan |-> _fallback_plan(user_question), next_action |-> "execute_tools"]
         ELSE [plan |-> plan, next_action |-> next_action_of(plan)]

\* plan of the branch `if not last_human_message` (lines 110-114)
NoQuestionPlan ==
    [keys |-> {"action", "reason"}, needs_tools |-> FALSE,
     reasoning |-> "No user question found", tools_is_list |-> TRUE,
     tools_to_use |-> <<>>]

----------------------------------------------------------------------------
(* Capabilities and the texts they return *)

\* self.tools_by_name for the tools agent_factory registers
tools_by_name ==
    {"english_search_document", "search_web", "start_practice_session",
     "get_practice_question", "submit_practice_answer", "get_learning_progress",
     "get_adaptive_question"}

\* the text between the first '{' and the last '}' of a tool result:
\* braces: find('{') >= 0 and rfind('}') + 1 > find('{');
\* marker: the text contains '{"success":' or '{"question":';
\* valid: json.loads accepts the text between the braces
JsonBody(braces, marker, valid, ks, success, question_is_dict, analytics, topics) ==
    [braces |-> braces, marker |-> marker, valid |-> valid, keys |-> ks,
     success |-> success, question_is_dict |-> question_is_dict,
     analytics |-> analytics, topics |-> topics]

NoJson == JsonBody(FALSE, FALSE, FALSE, {}, FALSE, FALSE, "absent", <<>>)

\* a result text: its tokens outside any JSON, and the JSON it embeds
Text(toks, json) == [toks |-> toks, json |-> json]

Plain(toks) == Text(toks, NoJson)

\* one element of analytics["topics"]: kind "ok" has the four keys read,
\* "missing_key" lacks one (KeyError), "not_dict" is no object (TypeError)
Topic(kind, name) == [kind |-> kind, topic |-> name]

\* json.dumps({"success": True, "question": {...}}) of get_practice_question
QuestionOutput ==
    Text(<<>>, JsonBody(TRUE, TRUE, TRUE, {"success", "question"}, TRUE, TRUE, "absent", <<>>))

\* {"success": true, "question": null}
NullQuestionOutput ==
    Text(<<>>, JsonBody(TRUE, TRUE, TRUE, {"success", "question"}, TRUE, FALSE, "absent", <<>>))

\* {"question": {...}} without a success key
BareQuestionOutput ==
    Text(<<>>, JsonBody(TRUE, TRUE, TRUE, {"question"}, FALSE, TRUE, "absent", <<>>))

\* json.dumps({"success": False, "message": ...})
FailureOutput ==
    Text(<<>>, JsonBody(TRUE, TRUE, TRUE, {"success", "message"}, FALSE, FALSE, "absent", <<>>))

\* documents found by a search: no JSON at all
DocumentsOutput == Plain(<<"documents">>)

\* a capability that returns the empty string
EmptyOutput == Plain(<<>>)

\* '{"success": true, ' cut short: the marker and braces, but no valid JSON
BrokenJsonOutput ==
    Text(<<>>, JsonBody(TRUE, TRUE, FALSE, {}, FALSE, FALSE, "absent", <<>>))

\* json.dumps({"success": True, "analytics": {"topics": [...]}})
AnalyticsOutput(topics) ==
    Text(<<>>, JsonBody(TRUE, TRUE, TRUE, {"success", "analytics"}, TRUE, FALSE, "topics", topics))

\* str(e) of the exceptions a capability raises
ToolErrors == {"connection refused"}

\* what tool.invoke(parameters) did
ToolRaised(msg) == [raised |-> TRUE, msg |-> msg, output |-> EmptyOutput]

ToolReturned(output) == [raised |-> FALSE, msg |-> "", output |-> output]

\* an exception whose message quotes the payload of a practice question
ToolRaisedQuoting == [raised |-> TRUE, msg |-> "unexpected reply", output |-> QuestionOutput]

----------------------------------------------------------------------------
(* _executor_node: one iteration of its loop *)

\* tool_spec.get("tool_name"); None is written "None", as str() prints it
entry_tool_name(tool_spec) ==
    IF "tool_name" \in tool_spec.keys THEN tool_spec.tool_name ELSE "None"

\* tool_spec.get("parameters", {})
entry_parameters(tool_spec) ==
    IF "parameters" \in tool_spec.keys THEN tool_spec.parameters ELSE Params(EmptyParams)

\* tool_spec.get("reason", "No reason provided")
entry_reason(tool_spec) ==
    IF "reason" \in tool_spec.keys THEN tool_spec.reason ELSE "No reason provided"

\* an injection that writes the run's user_id over a planned one
with_user_id_overwriting(parameters, user_id) ==
    Params([k \in (DOMAIN parameters.map) \cup {"user_id"} |->
               IF k = "user_id" THEN user_id ELSE parameters.map[k]])

\* lines 274-276: if "user_id" not in parameters: parameters["user_id"] = ...
with_user_id(parameters, user_id) ==
    IF "user_id" \in DOMAIN parameters.map THEN parameters
    ELSE Params([k \in (DOMAIN parameters.map) \cup {"user_id"} |->
                    IF k = "user_id" THEN user_id ELSE parameters.map[k]])

\* lines 266-276 raise outside the try when the entry is no dict
\* (AttributeError on .get) or its parameters are no dict (TypeError)
entry_aborts(tool_spec) ==
    \/ ~tool_spec.is_dict
    \/ ~entry_parameters(tool_spec).is_map

AbortMessage(tool_spec) ==
    IF ~tool_spec.is_dict THEN "object has no attribute 'get'"
    ELSE "argument is not a mapping"

\* _execute_single_tool: raises ValueError for an unknown name, else invokes
\* the capability, which returns or raises; `invoked` says tool.invoke ran
_execute_single_tool(tool_name, parameters, outcome) ==
    IF tool_name \notin tools_by_name
    THEN [raised |-> TRUE, invoked |-> FALSE,
          result |-> Plain(<<"Tool", tool_name, "not found">>)]
    ELSE IF outcome.raised
    THEN [raised |-> TRUE, invoked |-> TRUE,
          result |-> Text(<<outcome.msg>>, outcome.output.json)]
    ELSE [raised |-> FALSE, invoked |-> TRUE, result |-> outcome.output]

\* lines 279-300: the entry appended to results for one tool_spec
tool_result(tool_spec, user_id, outcome) ==
    LET tool_name == entry_tool_name(tool_spec)
        parameters == with_user_id(entry_parameters(tool_spec), user_id)
        r == _execute_single_tool(tool_name, parameters, outcome)
    IN  [tool_name |-> tool_name, parameters |-> parameters,
         reason |-> entry_reason(tool_spec),
         result |-> IF r.raised
                    THEN Text(<<"Error:">> \o r.result.toks, r.result.json)
                    ELSE r.result,
         success |-> ~r.raised]

\* parameters["user_id"] = ... writes into the dict held by the plan when
\* the entry has a "parameters" key
entry_after(tool_spec, user_id) ==
    IF "parameters" \in tool_spec.keys
    THEN [tool_spec EXCEPT !.parameters = with_user_id(tool_spec.parameters, user_id)]
    ELSE tool_spec

----------------------------------------------------------------------------
(* _responder_node and _enhance_response_with_structured_data *)

Apology ==
    <<"I apologize, but I encountered an error while generating my response. Please try asking your question again.">>

NoResponse == <<"I apologize, but I couldn't generate a response.">>

ErrorOutput(msg) == <<"I apologize, but I encountered an error:", msg>>

\* analytics["topics"][:5]
TopicCap == 5

\* a rendering that lists every topic of the payload
all_topics(topics) == topics

first_topics(topics) == SubSeq(topics, 1, IF Len(topics) < TopicCap THEN Len(topics) ELSE TopicCap)

QuestionRendering == <<"Practice Question:">>

ProgressRendering(topics) ==
    <<"Your Learning Progress:">> \o [i \in 1..Len(topics) |-> topics[i].topic]

\* lines 418-459 for one tool result: the response after it, or the
\* exception that leaves the function (anything but JSONDecodeError, KeyError)
enhance_one(response, result) ==
    LET j == result.result.json
        same == [raised |-> FALSE, text |-> response]
    IN  IF ~result.success THEN same
        ELSE IF ~(j.marker /\ j.braces) THEN same
        ELSE IF ~j.valid THEN same
        ELSE IF "question" \in j.keys /\ "success" \in j.keys /\ j.success
        THEN IF j.question_is_dict
             THEN [raised |-> FALSE, text |-> response \o QuestionRendering]
             ELSE [raised |-> TRUE, text |-> response]
        ELSE IF "analytics" \in j.keys /\ "success" \in j.keys /\ j.success
        THEN IF j.analytics = "topics"
             THEN LET ts == first_topics(j.topics)
                      bad == {i \in 1..Len(ts) : ts[i].kind # "ok"}
                      first == CHOOSE i \in bad : \A k \in bad : i <= k
                  IN  IF bad = {}
                      THEN [raised |-> FALSE, text |-> response \o ProgressRendering(ts)]
                      ELSE IF ts[first].kind = "missing_key" THEN same
                      ELSE [raised |-> TRUE, text |-> response]
             ELSE same
        ELSE same

RECURSIVE _enhance_response_with_structured_data(_, _)
_enhance_response_with_structured_data(response, tool_results) ==
    IF tool_results = <<>> THEN [raised |-> FALSE, text |-> response]
    ELSE LET r == enhance_one(response, Head(tool_results)) IN
         IF r.raised THEN r
         ELSE _enhance_response_with_structured_data(r.text, Tail(tool_results))

\* what self.llm.invoke did in the responder: raised, or returned a text
SynthRaised == [raised |-> TRUE, text |-> <<>>]

SynthReturned(text) == [raised |-> FALSE, text |-> text]

\* final_response without the except branch's fixed sentence
final_response_without_apology(outcome, tool_results) ==
    IF outcome.raised THEN outcome.text
    ELSE LET e == _enhance_response_with_structured_data(outcome.text, tool_results) IN
         IF e.raised THEN Apology ELSE e.text

\* lines 383-399: final_response
final_response(outcome, tool_results) ==
    IF outcome.raised THEN Apology
    ELSE LET e == _enhance_response_with_structured_data(outcome.text, tool_results) IN
         IF e.raised THEN Apology ELSE e.text

----------------------------------------------------------------------------
(* answer_questions and the nodes of the compiled graph *)

\* callers of agent.answer_questions
Callers == {1, 2}

\* session_key = f"{user_id}_{session_id}"
session_key(user_id, session_id) == Chars[user_id] \o <<"_">> \o Chars[session_id]

\* AgentState(...) of lines 509-518; iteration_count and max_iterations are
\* written once and never read
AgentState(messages, user_id, session_id) ==
    [messages |-> messages, user_id |-> user_id, session_id |-> session_id,
     plan |-> NoPlan, tool_results |-> <<>>, next_action |-> ""]

BlankState == AgentState(<<>>, "", "")

\* nothing returned yet
NoReturn ==
    [returned |-> FALSE, error |-> FALSE, output |-> <<>>, chat_history |-> <<>>,
     plan |-> NoPlan, tool_results |-> <<>>]

\* an output taken from the first AIMessage of the list
output_of_first_assistant(messages) ==
    LET ai == {i \in 1..Len(messages) : messages[i].type = "ai"}
        first == CHOOSE i \in ai : \A j \in ai : i <= j
    IN  IF ai = {} THEN NoResponse ELSE messages[first].content

\* lines 532-533: content of the last AIMessage, or the fixed sentence
output_of(messages) ==
    LET ai == {i \in 1..Len(messages) : messages[i].type = "ai"}
        last == CHOOSE i \in ai : \A j \in ai : j <= i
    IN  IF ai = {} THEN NoResponse ELSE messages[last].content

RECURSIVE chat_history_of(_, _)
\* lines 536-547: each human message paired with the next AI message after it
chat_history_of(messages, i) ==
    IF i > Len(messages) THEN <<>>
    ELSE LET later == {j \in (i + 1)..Len(messages) : messages[j].type = "ai"}
             j == CHOOSE k \in later : \A l \in later : k <= l
         IN  IF messages[i].type = "human" /\ later # {}
             THEN <<[human |-> messages[i].content, ai |-> messages[j].content]>>
                  \o chat_history_of(messages, i + 1)
             ELSE chat_history_of(messages, i + 1)

\* no model call was made
NoCall ==
    [node |-> "none", raised |-> FALSE, reply |-> Raised.text, text |-> <<>>,
     tool_results |-> 0, plan |-> NoPlan, next_action |-> "", question |-> <<>>]

\* the planner's model call of a run, with the plan the planner stored
planner_call_of(model_calls) == IF model_calls = <<>> THEN NoCall ELSE model_calls[1]

----------------------------------------------------------------------------
(* The practice tools of tools/tools_registry.py and the performance table
   of database/crud.py *)

\* user ids the practice tools are called with
PracticeUsers == {"u1", "u2"}

\* rows of the table topics (database/init_db.py)
TopicTable == {"Grammar", "Vocabulary"}

\* Question.topic as the question parser sets it; "General Knowledge" is its
\* default and no row of the table topics
QuestionTopics == {"Grammar", "General Knowledge"}

\* what QuestionManager hands out: the topic and the correct option
PracticeQuestions ==
    {[topic |-> t, correct_answer |-> a] : t \in QuestionTopics, a \in {"A", "B"}}

\* current_question = None
NoQuestion == [topic |-> "", correct_answer |-> ""]

\* the dict stored per user; has_db_session says the key db_session_id is set
SessionInfo(question, asked, target, has_db_session) ==
    [current_question |-> question, questions_asked |-> asked,
     target_questions |-> target, has_db_session |-> has_db_session]

NoSession == SessionInfo(NoQuestion, 0, 0, FALSE)

\* UserPerformance(total_questions=0, correct_answers=0, ...)
NoPerformance == [total_questions |-> 0, correct_answers |-> 0]

NoAnswers == [answers |-> 0, correct |-> 0]

\* answer.upper() for the answers submitted
upper_answer(answer) ==
    IF answer = "a" THEN "A" ELSE IF answer = "b" THEN "B" ELSE answer

\* crud.update_user_performance: no row of topics, no update; else get or
\* create the row, then total_questions += 1 and correct_answers += 1 if
\* is_correct
update_user_performance(performance, user_id, topic_name, is_correct) ==
    IF topic_name \notin TopicTable THEN performance
    ELSE LET key == <<user_id, topic_name>>
             table == IF key \in DOMAIN performance THEN performance
                      ELSE performance @@ (key :> NoPerformance)
         IN  [table EXCEPT ![key].total_questions = @ + 1,
                           ![key].correct_answers = IF is_correct THEN @ + 1 ELSE @]

\* crud.record_user_answer: stores the answer row, then calls
\* update_user_performance itself (line 148)
record_user_answer(performance, user_id, topic_name, user_answer, correct_answer) ==
    update_user_performance(performance, user_id, topic_name,
                            upper_answer(user_answer) = upper_answer(correct_answer))

\* tools_registry.start_practice_session with a question found
start_practice_session(user_id) ==
    /\ \E question \in PracticeQuestions, target_questions \in {2} :
          active_learning_sessions' =
              [u \in DOMAIN active_learning_sessions \cup {user_id} |->
                  IF u = user_id THEN SessionInfo(question, 1, target_questions, TRUE)
                  ELSE active_learning_sessions[u]]
    /\ UNCHANGED <<user_performance, accepted_answers>>
    /\ UNCHANGED agent_vars

\* tools_registry.get_practice_question with a question found
get_practice_question(user_id) ==
    /\ \E question \in PracticeQuestions :
          active_learning_sessions' =
              [u \in DOMAIN active_learning_sessions \cup {user_id} |->
                  IF u # user_id THEN active_learning_sessions[u]
                  ELSE IF user_id \in DOMAIN active_learning_sessions
                  THEN [active_learning_sessions[u] EXCEPT !.current_question = question]
                  ELSE SessionInfo(question, 0, 1, FALSE)]
    /\ UNCHANGED <<user_performance, accepted_answers>>
    /\ UNCHANGED agent_vars

\* _cleanup_learning_session
_cleanup_learning_session(sessions, user_id) ==
    [u \in DOMAIN sessions \ {user_id} |-> sessions[u]]

RECURSIVE SumOver(_, _)
SumOver(f, keys) ==
    IF keys = {} THEN 0
    ELSE LET k == CHOOSE x \in keys : TRUE IN f[k].answers + SumOver(f, keys \ {k})

\* the answers accepted so far, over all users and topics
AcceptedSoFar(accepted) == SumOver(accepted, DOMAIN accepted)

\* tools_registry.submit_practice_answer, lines 307-406
submit_practice_answer(user_id) ==
    /\ \E answer \in {"A", "b", "E"}, next \in PracticeQuestions \cup {NoQuestion} :
        IF \/ user_id \notin DOMAIN active_learning_sessions
           \/ active_learning_sessions[user_id].current_question = NoQuestion
        THEN \* "No active question found"
             UNCHANGED practice_vars
        ELSE IF upper_answer(answer) \notin {"A", "B", "C", "D"}
        THEN \* "Please provide a valid answer"
             UNCHANGED practice_vars
        ELSE LET session_info == active_learning_sessions[user_id]
                 question == session_info.current_question
                 user_answer == upper_answer(answer)
                 correct_answer == upper_answer(question.correct_answer)
                 is_correct == user_answer = correct_answer
                 is_practice_session == session_info.target_questions > 1
                                        /\ session_info.has_db_session
                 recorded == record_user_answer(user_performance, user_id, question.topic,
                                                user_answer, correct_answer)
                 key == <<user_id, question.topic>>
             IN  /\ AcceptedSoFar(accepted_answers) < MaxAnswers
                 /\ user_performance' =
                        update_user_performance(recorded, user_id, question.topic, is_correct)
                 /\ accepted_answers' =
                        [accepted_answers EXCEPT ![key].answers = @ + 1,
                                                 ![key].correct = IF is_correct THEN @ + 1 ELSE @]
                 /\ active_learning_sessions' =
                        IF is_practice_session
                        THEN IF session_info.questions_asked < session_info.target_questions
                                /\ next # NoQuestion
                             THEN [active_learning_sessions EXCEPT
                                      ![user_id].current_question = next,
                                      ![user_id].questions_asked = @ + 1]
                             ELSE _cleanup_learning_session(active_learning_sessions, user_id)
                        ELSE [active_learning_sessions EXCEPT
                                 ![user_id].current_question = NoQuestion]
    /\ UNCHANGED agent_vars

NextPractice ==
    \E user_id \in PracticeUsers :
        \/ start_practice_session(user_id)
        \/ get_practice_question(user_id)
        \/ submit_practice_answer(user_id)

Init ==
    /\ session_histories = [k \in {} |-> <<>>]
    /\ pc = [p \in Callers |-> "idle"]
    /\ st = [p \in Callers |-> BlankState]
    /\ ret = [p \in Callers |-> NoReturn]
    /\ calls = [p \in Callers |-> <<>>]
    /\ llm_calls = [p \in Callers |-> <<>>]
    /\ results = [p \in Callers |-> <<>>]
    /\ run_log = <<>>
    /\ next_id = 1
    /\ runs = 0
    /\ active_learning_sessions = [u \in {} |-> NoSession]
    /\ user_performance = [k \in {} |-> NoPerformance]
    /\ accepted_answers = [k \in PracticeUsers \X QuestionTopics |-> NoAnswers]

\* chat() of backend/main.py is a coroutine that calls answer_questions
\* without awaiting: one call runs at a time
Serial(p) == \A q \in Callers \ {p} : pc[q] = "idle"

\* a call that starts from the tool results its caller's last call returned
StartKeepingResults(p, env) ==
    /\ pc[p] = "idle"
    /\ runs < env.max_runs
    /\ \E question \in env.requests, user_id \in env.users, session_id \in env.sessions :
        LET key == session_key(user_id, session_id)
            histories == IF key \in DOMAIN session_histories THEN session_histories
                         ELSE session_histories @@ (key :> <<>>)
            input == histories[key] \o <<HumanMessage(<<question>>)>>
        IN  /\ session_histories' = histories
            /\ st' = [st EXCEPT ![p] =
                        [AgentState(add_messages(<<>>, input, next_id), user_id, session_id)
                            EXCEPT !.tool_results = ret[p].tool_results]]
            /\ next_id' = next_id + count_new(input)
    /\ pc' = [pc EXCEPT ![p] = "planner"]
    /\ ret' = [ret EXCEPT ![p] = NoReturn]
    /\ calls' = [calls EXCEPT ![p] = <<>>]
    /\ llm_calls' = [llm_calls EXCEPT ![p] = <<>>]
    /\ results' = [results EXCEPT ![p] = <<>>]
    /\ runs' = runs + 1
    /\ UNCHANGED run_log
    /\ UNCHANGED practice_vars

\* lines 503-526: look up or create the history, build the initial state and
\* hand it to workflow.invoke, whose input goes through the reducer
Start(p, env) ==
    /\ pc[p] = "idle"
    /\ runs < env.max_runs
    /\ \E question \in env.requests, user_id \in env.users, session_id \in env.sessions :
        LET key == session_key(user_id, session_id)
            histories == IF key \in DOMAIN session_histories THEN session_histories
                         ELSE session_histories @@ (key :> <<>>)
            input == histories[key] \o <<HumanMessage(<<question>>)>>
        IN  /\ session_histories' = histories
            /\ st' = [st EXCEPT ![p] =
                        AgentState(add_messages(<<>>, input, next_id), user_id, session_id)]
            /\ next_id' = next_id + count_new(input)
    /\ pc' = [pc EXCEPT ![p] = "planner"]
    /\ ret' = [ret EXCEPT ![p] = NoReturn]
    /\ calls' = [calls EXCEPT ![p] = <<>>]
    /\ llm_calls' = [llm_calls EXCEPT ![p] = <<>>]
    /\ results' = [results EXCEPT ![p] = <<>>]
    /\ runs' = runs + 1
    /\ UNCHANGED run_log
    /\ UNCHANGED practice_vars

\* _route_after_planning with the edge map of lines 78-85
_route_after_planning(state) ==
    IF state.next_action = "execute_tools" THEN "executor" ELSE "responder"

\* _planner_node, then the conditional edge
PlannerNode(p, env) ==
    /\ pc[p] = "planner"
    /\ \E outcome \in env.planner :
        \* d and after are bound once: the decision and the state it leaves
        \E d \in {IF has_human(st[p].messages)
                   THEN planner_decision(outcome, user_question_of(st[p].messages))
                   ELSE [plan |-> NoQuestionPlan, next_action |-> "respond_directly"]} :
        \E after \in {[st[p] EXCEPT !.plan = d.plan, !.next_action = d.next_action,
                          !.messages = add_messages(st[p].messages, st[p].messages, next_id)]} :
        LET asked == has_human(st[p].messages)
        IN  /\ st' = [st EXCEPT ![p] = after]
            /\ llm_calls' = [llm_calls EXCEPT ![p] =
                    IF asked
                    THEN Append(@, [node |-> "planner", raised |-> outcome.raised,
                                    reply |-> outcome.text, text |-> <<>>,
                                    tool_results |-> 0, plan |-> d.plan,
                                    next_action |-> d.next_action,
                                    question |-> last_human_content(st[p].messages)])
                    ELSE @]
            /\ pc' = [pc EXCEPT ![p] = _route_after_planning(after)]
    /\ UNCHANGED <<session_histories, ret, calls, results, run_log, next_id, runs>>
    /\ UNCHANGED practice_vars

\* _executor_node, lines 255-261: nothing to execute
ExecutorNoTools(p) ==
    /\ pc[p] = "executor"
    /\ get_tools_to_use(st[p].plan) = <<>>
    /\ st' = [st EXCEPT ![p].tool_results = <<>>,
                        ![p].messages = add_messages(@, @, next_id)]
    /\ pc' = [pc EXCEPT ![p] = "responder"]
    /\ UNCHANGED <<session_histories, ret, calls, llm_calls, results, run_log, next_id, runs>>
    /\ UNCHANGED practice_vars

\* _executor_node, lines 265-300: one iteration of the loop; an exception
\* raised outside the try leaves the node and the workflow
ExecutorInvoke(p, env) ==
    /\ pc[p] = "executor"
    /\ LET tools_to_use == get_tools_to_use(st[p].plan)
           i == Len(results[p]) + 1
       IN  /\ i <= Len(tools_to_use)
           /\ IF entry_aborts(tools_to_use[i])
              THEN /\ pc' = [pc EXCEPT ![p] = "except"]
                   /\ ret' = [ret EXCEPT ![p].output = <<AbortMessage(tools_to_use[i])>>]
                   /\ UNCHANGED <<st, calls, results>>
              ELSE \E outcome \in env.tools :
                   LET r == tool_result(tools_to_use[i], st[p].user_id, outcome) IN
                   /\ results' = [results EXCEPT ![p] = Append(@, r)]
                   /\ st' = [st EXCEPT ![p].plan.tools_to_use[i] =
                                entry_after(tools_to_use[i], st[p].user_id)]
                   /\ calls' = [calls EXCEPT ![p] =
                        IF r.tool_name \in tools_by_name
                        THEN Append(@, [tool_name |-> r.tool_name,
                                        parameters |-> r.parameters,
                                        raised |-> outcome.raised])
                        ELSE @]
                   /\ UNCHANGED <<pc, ret>>
    /\ UNCHANGED <<session_histories, llm_calls, run_log, next_id, runs>>
    /\ UNCHANGED practice_vars

\* an executor that stays in its node once every entry has a result
ExecutorStaysInNode(p) ==
    /\ pc[p] = "executor"
    /\ get_tools_to_use(st[p].plan) # <<>>
    /\ Len(results[p]) = Len(get_tools_to_use(st[p].plan))
    /\ UNCHANGED vars

\* _executor_node, lines 302-305: the loop is over
ExecutorReturn(p) ==
    /\ pc[p] = "executor"
    /\ get_tools_to_use(st[p].plan) # <<>>
    /\ Len(results[p]) = Len(get_tools_to_use(st[p].plan))
    /\ st' = [st EXCEPT ![p].tool_results = results[p],
                        ![p].messages = add_messages(@, @, next_id)]
    /\ pc' = [pc EXCEPT ![p] = "responder"]
    /\ UNCHANGED <<session_histories, ret, calls, llm_calls, results, run_log, next_id, runs>>
    /\ UNCHANGED practice_vars

\* _responder_node, then the edge to END
ResponderNode(p, env) ==
    /\ pc[p] = "responder"
    /\ \E outcome \in env.synth :
        \* returned is bound once: the messages with the new AIMessage appended
        \E returned \in {Append(st[p].messages,
                                 AIMessage(final_response(outcome, st[p].tool_results)))} :
        LET state == st[p]
        IN  /\ st' = [st EXCEPT ![p].messages = add_messages(state.messages, returned, next_id)]
            /\ next_id' = next_id + count_new(returned)
            /\ llm_calls' = [llm_calls EXCEPT ![p] =
                    Append(@, [node |-> "responder", raised |-> outcome.raised,
                               reply |-> Raised.text, text |-> outcome.text,
                               tool_results |-> Len(state.tool_results), plan |-> NoPlan,
                               next_action |-> "",
                               question |-> IF has_human(state.messages)
                                            THEN last_human_content(state.messages)
                                            ELSE <<>>])]
    /\ pc' = [pc EXCEPT ![p] = "returning"]
    /\ UNCHANGED <<session_histories, ret, calls, results, run_log, runs>>
    /\ UNCHANGED practice_vars

\* a store that writes the messages under every key it holds
save_history_to_every_thread(histories, key, messages) ==
    [k \in DOMAIN histories |-> messages]

\* line 529: self.session_histories[session_key] = final_state["messages"]
save_history(histories, key, messages) == [histories EXCEPT ![key] = messages]

\* lines 529-561: store the messages, extract the output, return
Finish(p) ==
    /\ pc[p] = "returning"
    /\ LET final_state == st[p]
           key == session_key(final_state.user_id, final_state.session_id)
           output == output_of(final_state.messages)
       IN  /\ session_histories' = save_history(session_histories, key, final_state.messages)
           /\ ret' = [ret EXCEPT ![p] =
                        [returned |-> TRUE, error |-> FALSE, output |-> output,
                         chat_history |-> chat_history_of(final_state.messages, 1),
                         plan |-> final_state.plan,
                         tool_results |-> final_state.tool_results]]
           /\ run_log' = Append(run_log,
                        [key |-> key, user_id |-> final_state.user_id,
                         session_id |-> final_state.session_id,
                         question |-> last_human_content(final_state.messages),
                         completed |-> TRUE, output |-> output,
                         planner_call |-> planner_call_of(llm_calls[p])])
    /\ pc' = [pc EXCEPT ![p] = "idle"]
    /\ st' = [st EXCEPT ![p] = BlankState]
    /\ results' = [results EXCEPT ![p] = <<>>]
    /\ UNCHANGED <<calls, llm_calls, next_id, runs>>
    /\ UNCHANGED practice_vars

\* an except branch that stores the messages of the aborted run
HandleErrorSavingTurns(p) ==
    /\ pc[p] = "except"
    /\ session_histories' = save_history(session_histories,
                                session_key(st[p].user_id, st[p].session_id), st[p].messages)
    /\ ret' = [ret EXCEPT ![p] =
                [returned |-> TRUE, error |-> TRUE, output |-> ErrorOutput(ret[p].output[1]),
                 chat_history |-> <<>>, plan |-> NoPlan, tool_results |-> <<>>]]
    /\ run_log' = Append(run_log,
                [key |-> session_key(st[p].user_id, st[p].session_id),
                 user_id |-> st[p].user_id, session_id |-> st[p].session_id,
                 question |-> last_human_content(st[p].messages),
                 completed |-> FALSE, output |-> ErrorOutput(ret[p].output[1]),
                 planner_call |-> planner_call_of(llm_calls[p])])
    /\ pc' = [pc EXCEPT ![p] = "idle"]
    /\ st' = [st EXCEPT ![p] = BlankState]
    /\ results' = [results EXCEPT ![p] = <<>>]
    /\ UNCHANGED <<calls, llm_calls, next_id, runs>>
    /\ UNCHANGED practice_vars

\* lines 563-571: except Exception around workflow.invoke; str(e) of the
\* exception in flight is ret[p].output[1]
HandleError(p) ==
    /\ pc[p] = "except"
    /\ ret' = [ret EXCEPT ![p] =
                [returned |-> TRUE, error |-> TRUE, output |-> ErrorOutput(ret[p].output[1]),
                 chat_history |-> <<>>, plan |-> NoPlan, tool_results |-> <<>>]]
    /\ run_log' = Append(run_log,
                [key |-> session_key(st[p].user_id, st[p].session_id),
                 user_id |-> st[p].user_id, session_id |-> st[p].session_id,
                 question |-> last_human_content(st[p].messages),
                 completed |-> FALSE, output |-> ErrorOutput(ret[p].output[1]),
                 planner_call |-> planner_call_of(llm_calls[p])])
    /\ pc' = [pc EXCEPT ![p] = "idle"]
    /\ st' = [st EXCEPT ![p] = BlankState]
    /\ results' = [results EXCEPT ![p] = <<>>]
    /\ UNCHANGED <<session_histories, calls, llm_calls, next_id, runs>>
    /\ UNCHANGED practice_vars

----------------------------------------------------------------------------
(* The inputs: requests, model replies, capability outcomes *)

SeqsUpTo(S, n) == UNION {[1..k -> S] : k \in 0..n}

PracticeEntry ==
    Entry(AllEntryKeys, "get_practice_question", Params([topic |-> "Grammar"]), "practice")

UnknownEntry == Entry(AllEntryKeys, "make_coffee", Params(EmptyParams), "coffee")

BadParamsEntry == Entry(AllEntryKeys, "search_web", NotAMap, "search")

\* {}: no tool_name, no parameters, no reason
BareEntry == Entry({}, "", NotAMap, "")

\* a reply that is exactly the JSON object obj
JsonReply(obj) == ReplyText(<<>>, TRUE, TRUE, TRUE, obj, <<>>)

\* the same between blank lines
PaddedReply(obj) == ReplyText(<<" ">>, TRUE, TRUE, TRUE, obj, <<" ", " ">>)

\* the same after a sentence of commentary
WrappedReply(obj) == ReplyText(<<"Here is the plan:">>, TRUE, TRUE, TRUE, obj, <<>>)

\* a reply cut before the closing brace
TruncatedReply == ReplyText(<<>>, TRUE, FALSE, FALSE, NoPlan, <<>>)

\* braces around text json.loads rejects
MalformedReply == ReplyText(<<>>, TRUE, TRUE, FALSE, NoPlan, <<>>)

\* no JSON at all
ProseReply == ReplyText(<<"You", "should", "practice", "daily.">>, FALSE, FALSE, FALSE, NoPlan, <<>>)

ModelPlan(needs, tools) == Plan(AllPlanKeys, needs, "model reasoning", TRUE, tools)

\* {"reasoning": ...}: neither needs_tools nor tools_to_use
ReasoningOnlyPlan == Plan({"reasoning"}, FALSE, "model reasoning", TRUE, <<>>)

\* {"needs_tools": true, "tools_to_use": 3, ...}
NumberToolsPlan == Plan(AllPlanKeys, TRUE, "model reasoning", FALSE, <<>>)

DirectPlan == ModelPlan(FALSE, <<>>)

\* every plan over the given entries, with needs_tools either way
ModelPlans(entries) ==
    {ModelPlan(needs, tools) : needs \in BOOLEAN, tools \in SeqsUpTo(entries, MaxInvocations)}
    \cup {ReasoningOnlyPlan, NumberToolsPlan}

RunEntries == {PracticeEntry, UnknownEntry, BareEntry, NotAnObject, BadParamsEntry}

\* one run under every shape of plan and every capability outcome
RunEnv ==
    [requests |-> {"show me my progress", "translate this to French"},
     users |-> {"u1"}, sessions |-> {"s"},
     planner |-> {Raised, Returned(ProseReply), Returned(PaddedReply(DirectPlan))}
                 \cup {Returned(JsonReply(plan)) :
                        plan \in ModelPlans(RunEntries)},
     tools |-> {ToolRaised(msg) : msg \in ToolErrors} \cup {ToolReturned(QuestionOutput)},
     synth |-> {SynthRaised, SynthReturned(<<>>), SynthReturned(<<"answer">>)},
     max_runs |-> 1]

\* every keyword combination of the fallback
FallbackEnv ==
    [requests |-> {"I want to practice a question", "show me my progress",
                   "translate this to French", "explain English vocabulary",
                   "Practice grammar and progress", "my english performance",
                   "restart", "start with grammar", "question my progress"},
     users |-> {"u1"}, sessions |-> {"s"},
     planner |-> {Raised, Returned(ProseReply), Returned(MalformedReply),
                  Returned(TruncatedReply), Returned(WrappedReply(DirectPlan)),
                  Returned(PaddedReply(DirectPlan)),
                  Returned(JsonReply(ModelPlan(TRUE, <<BadParamsEntry>>)))},
     tools |-> {ToolRaised(msg) : msg \in ToolErrors} \cup {ToolReturned(DocumentsOutput)},
     synth |-> {SynthRaised, SynthReturned(<<"answer">>)},
     max_runs |-> PlanRuns]

\* several runs on two threads
SessionEnv ==
    [requests |-> {"show me my progress", "translate this to French"},
     users |-> {"u1", "u2"}, sessions |-> {"s"},
     planner |-> {Raised, Returned(ProseReply), Returned(JsonReply(DirectPlan)),
                  Returned(JsonReply(ModelPlan(TRUE, <<NotAnObject>>)))},
     tools |-> {ToolRaised(msg) : msg \in ToolErrors} \cup {ToolReturned(DocumentsOutput)},
     synth |-> {SynthRaised, SynthReturned(<<>>), SynthReturned(<<"answer">>)},
     max_runs |-> MaxRuns]

SerialStart(p, env) == Serial(p) /\ Start(p, env)

Step(p, env) ==
    \/ SerialStart(p, env)
    \/ PlannerNode(p, env)
    \/ ExecutorNoTools(p)
    \/ ExecutorInvoke(p, env)
    \/ ExecutorReturn(p)
    \/ ResponderNode(p, env)
    \/ Finish(p)
    \/ HandleError(p)

Next == \E p \in {1} : Step(p, SessionEnv)

Spec == Init /\ [][Next]_vars

NextRun == \E p \in {1} : Step(p, RunEnv)

SpecRun == Init /\ [][NextRun]_vars

NextFallback == \E p \in {1} : Step(p, FallbackEnv)

SpecFallback == Init /\ [][NextFallback]_vars

\* six topics that can be rendered, one more than the rendering takes
SixTopics ==
    << Topic("ok", "Grammar"), Topic("ok", "Vocabulary"), Topic("ok", "Reading"),
       Topic("ok", "Idioms"), Topic("ok", "Spelling"), Topic("ok", "Tenses") >>

\* what a capability can hand to the responder's post-processing
RenderOutputs ==
    { QuestionOutput, NullQuestionOutput, BareQuestionOutput, FailureOutput,
      DocumentsOutput, BrokenJsonOutput,
      AnalyticsOutput(<<Topic("ok", "Grammar")>>),
      AnalyticsOutput(<<Topic("ok", "Grammar"), Topic("missing_key", "Vocabulary")>>),
      AnalyticsOutput(<<Topic("not_dict", "Grammar")>>),
      AnalyticsOutput(SixTopics) }

\* one run whose tool results carry every shape of payload
RenderEnv ==
    [requests |-> {"translate this to French"},
     users |-> {"u1"}, sessions |-> {"s"},
     planner |-> {Raised,
                  Returned(JsonReply(ModelPlan(TRUE, <<PracticeEntry>>))),
                  Returned(JsonReply(ModelPlan(TRUE, <<PracticeEntry, PracticeEntry>>))),
                  Returned(JsonReply(ModelPlan(TRUE, <<NotAnObject>>)))},
     tools |-> {ToolRaised(msg) : msg \in ToolErrors} \cup {ToolRaisedQuoting}
               \cup {ToolReturned(output) : output \in RenderOutputs},
     synth |-> {SynthRaised, SynthReturned(<<"answer">>)},
     max_runs |-> PlanRuns]

NextRender == \E p \in {1} : Step(p, RenderEnv)

SpecRender == Init /\ [][NextRender]_vars

\* the steps of a call that has started: the interpreter keeps executing it,
\* and every call to the model or to a capability comes back
RunStep(p, env) ==
    \/ PlannerNode(p, env)
    \/ ExecutorNoTools(p)
    \/ ExecutorInvoke(p, env)
    \/ ExecutorReturn(p)
    \/ ResponderNode(p, env)
    \/ Finish(p)
    \/ HandleError(p)

\* runs that end by each of the two returns of answer_questions
LiveEnv ==
    [requests |-> {"show me my progress", "translate this to French"},
     users |-> {"u1"}, sessions |-> {"s"},
     planner |-> {Raised, Returned(ProseReply), Returned(JsonReply(DirectPlan)),
                  Returned(JsonReply(ModelPlan(TRUE, <<UnknownEntry, BadParamsEntry>>))),
                  Returned(JsonReply(ModelPlan(TRUE, <<PracticeEntry, UnknownEntry>>)))},
     tools |-> {ToolRaised(msg) : msg \in ToolErrors} \cup {ToolReturned(DocumentsOutput)},
     synth |-> {SynthRaised, SynthReturned(<<>>), SynthReturned(<<"answer">>)},
     max_runs |-> PlanRuns]

NextLive == \E p \in {1} : Step(p, LiveEnv)

SpecLive == Init /\ [][NextLive]_vars /\ \A p \in {1} : WF_vars(RunStep(p, LiveEnv))

\* calls from two threads of the caller, on the same thread id or on two
ConcurrentEnv ==
    [requests |-> {"show me my progress", "translate this to French"},
     users |-> {"u1", "u2"}, sessions |-> {"s"},
     planner |-> {Raised, Returned(JsonReply(DirectPlan)),
                  Returned(JsonReply(ModelPlan(TRUE, <<NotAnObject>>)))},
     tools |-> {ToolReturned(DocumentsOutput)},
     synth |-> {SynthReturned(<<"answer">>)},
     max_runs |-> ConcurrentRuns]

\* answer_questions holds no lock: a call may start while another is under way
ConcurrentStep(p, env) ==
    \/ Start(p, env)
    \/ PlannerNode(p, env)
    \/ ExecutorNoTools(p)
    \/ ExecutorInvoke(p, env)
    \/ ExecutorReturn(p)
    \/ ResponderNode(p, env)
    \/ Finish(p)
    \/ HandleError(p)

NextConcurrent == \E p \in Callers : ConcurrentStep(p, ConcurrentEnv)

SpecConcurrent == Init /\ [][NextConcurrent]_vars

\* consecutive calls whose user and session identifiers hold the separator
KeysEnv ==
    [requests |-> {"show me my progress", "translate this to French"},
     users |-> {"u1", "u1_s"}, sessions |-> {"s_t", "t"},
     planner |-> {Raised, Returned(JsonReply(DirectPlan)),
                  Returned(JsonReply(ModelPlan(TRUE, <<NotAnObject>>)))},
     tools |-> {ToolReturned(DocumentsOutput)},
     synth |-> {SynthReturned(<<"answer">>)},
     max_runs |-> MaxRuns]

NextKeys == \E p \in {1} : Step(p, KeysEnv)

SpecKeys == Init /\ [][NextKeys]_vars

SpecPractice == Init /\ [][NextPractice]_vars

----------------------------------------------------------------------------
(* Vocabulary of the properties *)

\* the planner of caller p has left its plan in the state
Planned(p) == st[p].next_action # ""

\* the executor of caller p has stopped, by returning or by an exception
ExecutorOver(p) ==
    /\ pc[p] \in {"responder", "returning", "except"}
    /\ st[p].next_action = "execute_tools"

\* the planner's model call of the current run raised
PlannerCallRaised(p) ==
    /\ llm_calls[p] # <<>>
    /\ llm_calls[p][1].node = "planner"
    /\ llm_calls[p][1].raised

\* every model call of the current run raised
EveryModelCallRaised(p) ==
    /\ llm_calls[p] # <<>>
    /\ \A i \in 1..Len(llm_calls[p]) : llm_calls[p][i].raised

\* the planner of the current run did not adopt the model's reply
UsedFallback(p) ==
    /\ llm_calls[p] # <<>>
    /\ llm_calls[p][1].node = "planner"
    /\ LET c == llm_calls[p][1]
           t == strip(c.reply)
       IN  \/ c.raised
           \/ ~(t.pre = <<>> /\ t.open /\ t.close /\ t.post = <<>> /\ t.valid)
           \/ (t.obj.needs_tools /\ ~t.obj.tools_is_list)

ToolNames(plan) ==
    [i \in 1..Len(get_tools_to_use(plan)) |-> entry_tool_name(get_tools_to_use(plan)[i])]

HasToken(toks, tok) == \E i \in 1..Len(toks) : toks[i] = tok

IsPrefix(a, b) == Len(a) <= Len(b) /\ SubSeq(b, 1, Len(a)) = a

\* the turns of a message list: role and content, without the ids
Turns(messages) ==
    [i \in 1..Len(messages) |-> [role |-> messages[i].type, content |-> messages[i].content]]

UserTurn(content) == [role |-> "human", content |-> content]

AssistantTurn(content) == [role |-> "ai", content |-> content]

\* the last finished run
LastRun == run_log[Len(run_log)]

----------------------------------------------------------------------------
(* C1 *)

\* C1: whatever path produced the plan (parsed reply, fallback after a parse
\* failure, fallback after a failed model call), the stage chosen after
\* planning is execute_tools if and only if plan.needs_tools is true and the
\* plan's invocation list is non-empty.
C1_NextStageIffNeedsTools ==
    \A p \in Callers :
        Planned(p) =>
            ( st[p].next_action = "execute_tools"
              <=> (get_needs_tools(st[p].plan) /\ get_tools_to_use(st[p].plan) # <<>>) )

----------------------------------------------------------------------------
(* C2 *)

\* C2: in a run whose plan has needs_tools = false no capability is invoked,
\* neither while the run is under way nor by the time it has returned,
\* whichever planner path produced the plan.
C2_NoToolsNoInvocation ==
    \A p \in Callers :
        /\ (Planned(p) /\ ~get_needs_tools(st[p].plan)) => calls[p] = <<>>
        /\ (ret[p].returned /\ ~ret[p].error /\ ~get_needs_tools(ret[p].plan))
                => calls[p] = <<>>

\* a finished run whose plan said needs_tools = false and yet listed tools
C2_Witness ==
    \E p \in Callers :
        /\ ret[p].returned /\ ~ret[p].error
        /\ ~get_needs_tools(ret[p].plan)
        /\ get_tools_to_use(ret[p].plan) # <<>>
        /\ calls[p] = <<>>

----------------------------------------------------------------------------
(* C3 *)

\* C3: whenever the executor has run on a plan with needs_tools = true and
\* n >= 1 invocations, it has produced exactly n results, the i-th carrying
\* the tool name of the i-th invocation.
C3_OneResultPerInvocation ==
    \A p \in Callers :
        LET plan == st[p].plan
            tools == get_tools_to_use(plan)
        IN  (ExecutorOver(p) /\ get_needs_tools(plan) /\ Len(tools) >= 1) =>
                /\ Len(results[p]) = Len(tools)
                /\ \A i \in 1..Len(tools) :
                      results[p][i].tool_name = entry_tool_name(tools[i])

\* the same, for plans whose entries are all dicts with dict parameters
C3_WellFormedPlans ==
    \A p \in Callers :
        LET plan == st[p].plan
            tools == get_tools_to_use(plan)
        IN  (ExecutorOver(p) /\ get_needs_tools(plan) /\ Len(tools) >= 1
             /\ \A i \in 1..Len(tools) : ~entry_aborts(tools[i])) =>
                /\ Len(results[p]) = Len(tools)
                /\ \A i \in 1..Len(tools) :
                      results[p][i].tool_name = entry_tool_name(tools[i])

----------------------------------------------------------------------------
(* C4 *)

\* the invocations of the current run during which the capability raised
RaisedAt(p) ==
    {k \in 1..Len(results[p]) :
        results[p][k].tool_name \in tools_by_name /\ ~results[p][k].success}

\* C4: when a capability raises during invocation k, the result recorded for
\* k has success = false and a text containing the exception's message, every
\* later invocation is still carried out, and no exception leaves the executor.
C4_RaiseIsIsolated ==
    \A p \in Callers : \A k \in RaisedAt(p) :
        /\ \E msg \in ToolErrors : HasToken(results[p][k].result.toks, msg)
        /\ ExecutorOver(p) =>
              /\ pc[p] # "except"
              /\ Len(results[p]) = Len(get_tools_to_use(st[p].plan))

----------------------------------------------------------------------------
(* C5 *)

\* C5: an invocation naming a tool absent from the registry gets exactly one
\* result, with success = false and a text containing the tool name, no
\* capability is invoked for it, the remaining invocations are carried out,
\* and the run still ends with a non-empty answer.
C5_UnknownToolIsReported ==
    \A p \in Callers :
        /\ \A k \in 1..Len(results[p]) :
              results[p][k].tool_name \notin tools_by_name =>
                 /\ ~results[p][k].success
                 /\ HasToken(results[p][k].result.toks, results[p][k].tool_name)
                 /\ \A c \in 1..Len(calls[p]) :
                       calls[p][c].tool_name # results[p][k].tool_name
        /\ (ExecutorOver(p)
            /\ \E k \in 1..Len(results[p]) : results[p][k].tool_name \notin tools_by_name)
              => Len(results[p]) = Len(get_tools_to_use(st[p].plan))
        /\ (ret[p].returned
            /\ \E k \in 1..Len(ret[p].tool_results) :
                  ret[p].tool_results[k].tool_name \notin tools_by_name)
              => ret[p].output # <<>>

----------------------------------------------------------------------------
(* C6 *)

\* C6: when every model call of a run raises, the run does not end in the
\* error handler: the plan is the keyword fallback for the request, the
\* answer is the fixed apology, and that apology is returned as output and
\* stored as the thread's last turn, after the run's user turn.
C6_ModelAlwaysFails ==
    \A p \in Callers :
        /\ PlannerCallRaised(p) => pc[p] # "except"
        /\ (PlannerCallRaised(p) /\ Planned(p)) =>
              LET f == _fallback_plan(user_question_of(st[p].messages)) IN
              /\ get_needs_tools(st[p].plan) = get_needs_tools(f)
              /\ st[p].plan.reasoning = f.reasoning
              /\ ToolNames(st[p].plan) = ToolNames(f)
        /\ (ret[p].returned /\ EveryModelCallRaised(p)) =>
              /\ ~ret[p].error
              /\ Len(llm_calls[p]) = 2
              /\ ret[p].output = Apology
              /\ LastRun.completed
              /\ LET h == Turns(session_histories[LastRun.key]) IN
                 /\ Len(h) >= 2
                 /\ h[Len(h) - 1] = UserTurn(LastRun.question)
                 /\ h[Len(h)] = AssistantTurn(Apology)

\* a returned run whose two model calls both raised
C6_Witness ==
    \E p \in Callers :
        /\ ret[p].returned
        /\ Len(llm_calls[p]) = 2
        /\ EveryModelCallRaised(p)
        /\ ret[p].output = Apology

----------------------------------------------------------------------------
(* C7 *)

\* C7: the output returned by answer_questions is never the empty text,
\* whatever the model and the capabilities returned or raised.
C7_OutputNonEmpty ==
    \A p \in Callers : ret[p].returned => ret[p].output # <<>>

----------------------------------------------------------------------------
(* C8 *)

RECURSIVE TurnsOfRuns(_, _)
\* the turns of the finished runs on thread key, in run order: each run's
\* user turn, followed by its assistant turn when it produced one
TurnsOfRuns(log, key) ==
    IF log = <<>> THEN <<>>
    ELSE LET r == Head(log) IN
         (IF r.key # key THEN <<>>
          ELSE IF r.completed THEN <<UserTurn(r.question), AssistantTurn(r.output)>>
          ELSE <<UserTurn(r.question)>>)
         \o TurnsOfRuns(Tail(log), key)

\* C8: the turns loaded at the start of a run on a thread begin with every
\* user turn and assistant turn of the earlier runs on that thread, in order.
C8_LoadedTurnsHoldEarlierRuns ==
    \A p \in Callers :
        pc[p] = "planner" =>
            LET loaded == SubSeq(st[p].messages, 1, Len(st[p].messages) - 1)
                key == session_key(st[p].user_id, st[p].session_id)
            IN  IsPrefix(TurnsOfRuns(run_log, key), Turns(loaded))

----------------------------------------------------------------------------
(* C9 *)

\* C9: the stored history of a thread never shrinks; a run that ends adds
\* exactly one user turn to it and, when it succeeded, exactly one assistant
\* turn after that.
C9_EachRunAppendsItsTurns ==
    [][ \A p \in Callers :
          (pc[p] \in {"returning", "except"} /\ pc'[p] = "idle") =>
             LET key == session_key(st[p].user_id, st[p].session_id)
                 before == Turns(session_histories[key])
                 after == Turns(session_histories'[key])
                 question == last_human_content(st[p].messages)
             IN  /\ IsPrefix(before, after)
                 /\ IF pc[p] = "returning"
                    THEN /\ Len(after) = Len(before) + 2
                         /\ after[Len(after) - 1] = UserTurn(question)
                         /\ after[Len(after)].role = "ai"
                    ELSE after = Append(before, UserTurn(question)) ]_vars

\* the same for the runs that reach the end of the workflow
C9_CompletedRunsAppendTwoTurns ==
    [][ \A p \in Callers :
          (pc[p] = "returning" /\ pc'[p] = "idle") =>
             LET key == session_key(st[p].user_id, st[p].session_id)
                 before == Turns(session_histories[key])
                 after == Turns(session_histories'[key])
             IN  /\ IsPrefix(before, after)
                 /\ Len(after) = Len(before) + 2
                 /\ after[Len(after) - 1] = UserTurn(last_human_content(st[p].messages))
                 /\ after[Len(after)].role = "ai" ]_vars

----------------------------------------------------------------------------
(* C10 *)

\* which keyword lists each request matches, read off the request by hand
\* (case-insensitive, as a substring)
MatchedLists ==
    "I want to practice a question" :> {"practice"} @@
    "show me my progress" :> {"progress"} @@
    "translate this to French" :> {} @@
    "explain English vocabulary" :> {"english"} @@
    "Practice grammar and progress" :> {"practice", "progress", "english"} @@
    "my english performance" :> {"progress", "english"} @@
    "restart" :> {"practice"} @@
    "start with grammar" :> {"practice", "english"} @@
    "question my progress" :> {"practice", "progress"}

\* C10: the fallback plan follows the priority practice/question/start, then
\* progress/performance, then grammar/english/vocabulary: the first list the
\* request matches alone decides, the plan then has exactly one invocation
\* (get_practice_question, get_learning_progress, english_search_document),
\* and a request matching no list gets needs_tools = false and no invocation.
C10_FallbackPriority ==
    \A p \in Callers :
        (Planned(p) /\ UsedFallback(p)) =>
            LET m == MatchedLists[user_question_of(st[p].messages)]
                plan == st[p].plan
            IN  /\ "practice" \in m =>
                      get_needs_tools(plan) /\ ToolNames(plan) = <<"get_practice_question">>
                /\ ("practice" \notin m /\ "progress" \in m) =>
                      get_needs_tools(plan) /\ ToolNames(plan) = <<"get_learning_progress">>
                /\ ("practice" \notin m /\ "progress" \notin m /\ "english" \in m) =>
                      get_needs_tools(plan) /\ ToolNames(plan) = <<"english_search_document">>
                /\ m = {} => ~get_needs_tools(plan) /\ get_tools_to_use(plan) = <<>>

\* a fallback plan for a request that matches all three lists
C10_Witness ==
    \E p \in Callers :
        /\ Planned(p) /\ UsedFallback(p)
        /\ MatchedLists[user_question_of(st[p].messages)] = {"practice", "progress", "english"}
        /\ ToolNames(st[p].plan) = <<"get_practice_question">>

----------------------------------------------------------------------------
(* C11 *)

\* the planned parameters of the only invocation of a plan
OnlyParameters(plan) == entry_parameters(get_tools_to_use(plan)[1]).map

\* C11: when the planner's model call fails, the request "I want to practice
\* a question" gets a plan whose only invocation is get_practice_question
\* with topic "Grammar" and difficulty "medium", the request "show me my
\* progress" gets a plan whose only invocation is get_learning_progress, and
\* the request "translate this to French" gets a plan with needs_tools false.
C11_LiteralRoutingScenarios ==
    \A p \in Callers :
        (Planned(p) /\ PlannerCallRaised(p)) =>
            LET q == user_question_of(st[p].messages)
                plan == st[p].plan
            IN  /\ q = "I want to practice a question" =>
                      /\ get_needs_tools(plan)
                      /\ ToolNames(plan) = <<"get_practice_question">>
                      /\ {"topic", "difficulty"} \subseteq DOMAIN OnlyParameters(plan)
                      /\ OnlyParameters(plan)["topic"] = "Grammar"
                      /\ OnlyParameters(plan)["difficulty"] = "medium"
                /\ q = "show me my progress" =>
                      /\ get_needs_tools(plan)
                      /\ ToolNames(plan) = <<"get_learning_progress">>
                /\ q = "translate this to French" =>
                      /\ ~get_needs_tools(plan)
                      /\ get_tools_to_use(plan) = <<>>

\* the practice request planned by the fallback after a failed model call
C11_Witness ==
    \E p \in Callers :
        /\ Planned(p) /\ PlannerCallRaised(p)
        /\ user_question_of(st[p].messages) = "I want to practice a question"
        /\ ToolNames(st[p].plan) = <<"get_practice_question">>
        /\ OnlyParameters(st[p].plan)["difficulty"] = "medium"

----------------------------------------------------------------------------
(* C12 *)

\* the planner call c ended in _fallback_plan: the model call raised, the
\* reply was not adopted, or the adopted reply raised at line 187
FellBack(c) ==
    /\ c.node = "planner"
    /\ LET t == strip(c.reply)
       IN  \/ c.raised
           \/ ~(t.pre = <<>> /\ t.open /\ t.close /\ t.post = <<>> /\ t.valid)
           \/ (t.obj.needs_tools /\ ~t.obj.tools_is_list)

\* request and stored plan of every fallback call made so far, in finished
\* runs and in the runs under way
FallbackCalls ==
    {[question |-> run_log[i].question, plan |-> run_log[i].planner_call.plan] :
        i \in {j \in 1..Len(run_log) : FellBack(run_log[j].planner_call)}}
    \cup {[question |-> last_human_content(st[p].messages), plan |-> llm_calls[p][1].plan] :
        p \in {q \in Callers : Planned(q) /\ llm_calls[q] # <<>>
                                /\ FellBack(llm_calls[q][1])}}

----------------------------------------------------------------------------
(* C14 *)

\* the thread id of a workflow state
ThreadOf(state) == session_key(state.user_id, state.session_id)

\* the finished runs on thread key that went through the responder
CompletedOn(log, key) == {i \in 1..Len(log) : log[i].key = key /\ log[i].completed}

\* C14: runs on one thread do not lose each other's updates, however they
\* overlap: once no run is under way, the stored history of every thread
\* holds the user turn and the assistant turn of each completed run on it.
C14_NoLostUpdate ==
    (\A p \in Callers : pc[p] = "idle") =>
        \A key \in DOMAIN session_histories :
            LET h == Turns(session_histories[key])
                done == CompletedOn(run_log, key)
            IN  /\ Len(h) = 2 * Cardinality(done)
                /\ \A i \in done : \E j \in 1..(Len(h) - 1) :
                      /\ h[j] = UserTurn(run_log[i].question)
                      /\ h[j + 1] = AssistantTurn(run_log[i].output)

----------------------------------------------------------------------------
(* C15 *)

\* caller p takes this step of a run on thread key
ActingOn(p, key) ==
    /\ pc'[p] # pc[p]
    /\ IF pc[p] = "idle" THEN ThreadOf(st'[p]) = key ELSE ThreadOf(st[p]) = key

\* the requests of the completed runs on thread key
QuestionsOn(log, key) == {log[i].question : i \in CompletedOn(log, key)}

\* C15: threads are independent under every interleaving: a step of a run
\* on one thread leaves the stored history of every other thread as it was,
\* a stored history holds only user turns of runs on its own thread, and a
\* run loads exactly the stored history of its own thread.
C15_ThreadsAreIndependent ==
    [][\A key \in DOMAIN session_histories' :
          /\ \/ key \in DOMAIN session_histories
                   /\ session_histories'[key] = session_histories[key]
             \/ \E p \in Callers : ActingOn(p, key)
          /\ \A i \in 1..Len(session_histories'[key]) :
                session_histories'[key][i].type = "human" =>
                    session_histories'[key][i].content \in QuestionsOn(run_log', key)
          /\ \A p \in Callers :
                (pc[p] = "idle" /\ pc'[p] = "planner" /\ ThreadOf(st'[p]) = key) =>
                    /\ session_histories'[key] =
                          (IF key \in DOMAIN session_histories
                           THEN session_histories[key] ELSE <<>>)
                    /\ SubSeq(Turns(st'[p].messages), 1, Len(st'[p].messages) - 1)
                          = Turns(session_histories'[key])
      ]_vars

\* a run on one thread has saved its turns while a run with another request
\* on another thread is under way and holds none of them
C15_Witness ==
    \E p \in Callers, key \in DOMAIN session_histories :
        /\ pc[p] = "returning"
        /\ ThreadOf(st[p]) # key
        /\ Len(session_histories[key]) = 2
        /\ session_histories[key][1].content # st[p].messages[1].content
        /\ Len(st[p].messages) = 2

----------------------------------------------------------------------------
(* C16 *)

\* the edges of the pipeline: planner, executor if routed, responder, done
PipelineEdges ==
    { <<"idle", "planner">>, <<"planner", "executor">>, <<"planner", "responder">>,
      <<"executor", "responder">>, <<"responder", "returning">>, <<"returning", "idle">> }

\* the edges taken when an exception leaves the executor
AbortEdges == { <<"executor", "except">>, <<"except", "idle">> }

\* C16: every run passes the stages in the order planner, executor only when
\* the router selected execute_tools, responder: each move of a run follows
\* an edge of the pipeline, so no stage is entered twice, the responder never
\* precedes the executor, and a run ends only after its responder has run.
C16_SinglePassThroughAllStages ==
    [][\A p \in Callers :
          pc'[p] # pc[p] =>
              /\ <<pc[p], pc'[p]>> \in PipelineEdges
              /\ pc[p] = "planner" =>
                    (pc'[p] = "executor" <=> st'[p].next_action = "execute_tools")
      ]_vars

\* the same with the abort edges admitted: the stages a run does enter are
\* entered once and in pipeline order
C16_NoStageReentered ==
    [][\A p \in Callers :
          pc'[p] # pc[p] =>
              /\ <<pc[p], pc'[p]>> \in PipelineEdges \cup AbortEdges
              /\ pc[p] = "planner" =>
                    (pc'[p] = "executor" <=> st'[p].next_action = "execute_tools")
              /\ pc'[p] = "returning" =>
                    /\ Len(llm_calls'[p]) = 2
                    /\ llm_calls'[p][1].node = "planner"
                    /\ llm_calls'[p][2].node = "responder"
      ]_vars

----------------------------------------------------------------------------
(* C17 *)

\* C17: every run that has started eventually returns to its caller,
\* whatever the model and the capabilities return or raise.
C17_EveryRunReachesDone ==
    \A p \in Callers : (pc[p] # "idle") ~> (pc[p] = "idle" /\ ret[p].returned)

\* a run has returned although both model calls and a capability raised
C17_Witness ==
    \E p \in Callers :
        /\ pc[p] = "idle" /\ ret[p].returned /\ ~ret[p].error
        /\ EveryModelCallRaised(p)
        /\ \E c \in 1..Len(calls[p]) : calls[p][c].raised

----------------------------------------------------------------------------
(* C18 *)

\* the responder's model call of the last run of caller p
SynthesisCall(p) == llm_calls[p][Len(llm_calls[p])]

\* the responder's model call of caller p returned a text
Synthesized(p) ==
    /\ llm_calls[p] # <<>>
    /\ SynthesisCall(p).node = "responder"
    /\ ~SynthesisCall(p).raised

\* a payload with nothing to render: not parsable, of no recognized shape,
\* or of a recognized shape that is malformed inside
NothingToRender(j) ==
    \/ ~(j.marker /\ j.braces /\ j.valid)
    \/ ~("success" \in j.keys /\ j.success)
    \/ "question" \in j.keys /\ ~j.question_is_dict
    \/ /\ "question" \notin j.keys
       /\ \/ "analytics" \notin j.keys
          \/ j.analytics # "topics"
          \/ \E i \in 1..Len(first_topics(j.topics)) : j.topics[i].kind # "ok"

\* C18: post-processing never fails the response: when the synthesis call
\* returned, the answer begins with the synthesized text, and when every
\* successful tool result carries a payload that is unparsable, unrecognized or
\* malformed inside, the answer is the synthesized text itself.
C18_PostProcessingNeverFails ==
    \A p \in Callers :
        (ret[p].returned /\ ~ret[p].error /\ Synthesized(p)) =>
            /\ IsPrefix(SynthesisCall(p).text, ret[p].output)
            /\ (\A k \in 1..Len(ret[p].tool_results) :
                    ret[p].tool_results[k].success =>
                        NothingToRender(ret[p].tool_results[k].result.json))
                 => ret[p].output = SynthesisCall(p).text

\* the payloads that are skipped as claimed: those json.loads rejects, those
\* of no recognized shape, and a topic entry that lacks a key
C18_SkippedPayloads ==
    \A p \in Callers :
        (ret[p].returned /\ ~ret[p].error /\ Synthesized(p)
         /\ \A k \in 1..Len(ret[p].tool_results) :
               LET j == ret[p].tool_results[k].result.json IN
               ret[p].tool_results[k].success =>
                   /\ NothingToRender(j)
                   /\ ~("question" \in j.keys /\ j.valid /\ j.success)
                   /\ \A i \in 1..Len(j.topics) : j.topics[i].kind # "not_dict")
            => ret[p].output = SynthesisCall(p).text

----------------------------------------------------------------------------
(* C19 *)

\* the planner call c got a reply that was not accepted as JSON
ParseFailed(c) ==
    /\ c.node = "planner"
    /\ ~c.raised
    /\ ~(looks_like_json(strip(c.reply)) /\ json_loads_ok(strip(c.reply)))

\* request and planner call of every run planned so far
PlannerCalls ==
    {[question |-> run_log[i].question, call |-> run_log[i].planner_call] :
        i \in {j \in 1..Len(run_log) : run_log[j].planner_call.node = "planner"}}
    \cup {[question |-> last_human_content(st[p].messages), call |-> llm_calls[p][1]] :
        p \in {q \in Callers : Planned(q) /\ llm_calls[q] # <<>>}}

\* C19: for the same request, a planner whose model call raised and a
\* planner whose model reply failed to parse end alike: the same fallback
\* plan and the same next stage.
C19_RaiseEqualsParseFailure ==
    \A a, b \in PlannerCalls :
        (a.question = b.question /\ a.call.raised /\ ParseFailed(b.call)) =>
            /\ a.call.plan = b.call.plan
            /\ a.call.next_action = b.call.next_action

\* the part that holds: both paths store the same fallback plan
C19_SameFallbackPlan ==
    \A a, b \in PlannerCalls :
        (a.question = b.question /\ a.call.raised /\ ParseFailed(b.call)) =>
            a.call.plan = b.call.plan

----------------------------------------------------------------------------
(* C20 *)

\* only white space
Blank(toks) == \A i \in 1..Len(toks) : toks[i] = " "

\* the reply, once trimmed, begins with '{', ends with '}' and parses as JSON
AcceptedShape(reply) ==
    /\ Blank(reply.pre) /\ reply.open
    /\ reply.close /\ Blank(reply.post)
    /\ reply.valid

\* C20: the planner takes the model's reply as the plan only when the trimmed
\* reply begins with '{', ends with '}' and parses as JSON; after any other
\* reply the plan is exactly the keyword fallback plan for the request.
C20_StrictReplyFormat ==
    \A p \in Callers :
        (Planned(p) /\ llm_calls[p] # <<>> /\ ~llm_calls[p][1].raised) =>
            LET c == llm_calls[p][1]
                q == user_question_of(st[p].messages)
            IN  /\ c.plan = c.reply.obj => AcceptedShape(c.reply)
                /\ ~AcceptedShape(c.reply) =>
                      /\ c.plan = _fallback_plan(q)
                      /\ c.plan # c.reply.obj

\* a valid plan wrapped in commentary was set aside for the fallback plan,
\* which disagrees with it
C20_Witness ==
    \E p \in Callers :
        /\ Planned(p) /\ llm_calls[p] # <<>>
        /\ llm_calls[p][1].reply = WrappedReply(DirectPlan)
        /\ llm_calls[p][1].plan = _fallback_plan(user_question_of(st[p].messages))
        /\ get_needs_tools(llm_calls[p][1].plan)
        /\ st[p].next_action = "execute_tools"

\* a padded JSON reply was taken as the plan
C20_PaddedReplyAdopted ==
    \E p \in Callers :
        /\ Planned(p) /\ llm_calls[p] # <<>>
        /\ llm_calls[p][1].reply = PaddedReply(DirectPlan)
        /\ llm_calls[p][1].plan = DirectPlan

----------------------------------------------------------------------------
(* C21 *)

\* the parameters the planner left in the plan for entry k of the current run,
\* before the executor touched them
PlannedParameters(p, k) ==
    entry_parameters(get_tools_to_use(planner_call_of(llm_calls[p]).plan)[k]).map

\* the entries of the current run for which a capability was invoked
Invoked(p) == {k \in 1..Len(results[p]) : results[p][k].tool_name \in tools_by_name}

C21_PlannedUserIdKept ==
    \E p \in Callers : \E k \in Invoked(p) :
        /\ "user_id" \in DOMAIN PlannedParameters(p, k)
        /\ PlannedParameters(p, k)["user_id"] # st[p].user_id
        /\ results[p][k].parameters.map = PlannedParameters(p, k)

----------------------------------------------------------------------------
(* C22 *)

\* the text between the first '{' and the last '}' parses and holds a
\* question object
HoldsQuestion(j) == j.braces /\ j.valid /\ "question" \in j.keys /\ j.question_is_dict

\* the same for an analytics object with a topics list
HoldsTopics(j) == j.braces /\ j.valid /\ "analytics" \in j.keys /\ j.analytics = "topics"

\* C22: when the synthesis call returned, the answer holds the question
\* rendering for every successful tool result whose payload parses and holds a
\* question object, and the progress rendering for every one whose payload
\* holds an analytics object with a topics list.
C22_EveryPayloadRendered ==
    \A p \in Callers :
        (ret[p].returned /\ ~ret[p].error /\ Synthesized(p)) =>
            \A k \in 1..Len(ret[p].tool_results) :
                LET r == ret[p].tool_results[k] IN
                r.success =>
                    /\ HoldsQuestion(r.result.json)
                          => HasToken(ret[p].output, QuestionRendering[1])
                    /\ (HoldsTopics(r.result.json) /\ ~HoldsQuestion(r.result.json))
                          => HasToken(ret[p].output, ProgressRendering(<<>>)[1])

\* what the code renders: a payload that also says success = true and whose
\* first five topics have every key read, in a run where no payload made the
\* post-processing raise
C22_RenderedWhenPayloadSucceeds ==
    \A p \in Callers :
        (ret[p].returned /\ ~ret[p].error /\ Synthesized(p) /\ ret[p].output # Apology) =>
            \A k \in 1..Len(ret[p].tool_results) :
                LET r == ret[p].tool_results[k]
                    j == r.result.json
                IN  (r.success /\ j.marker /\ "success" \in j.keys /\ j.success) =>
                    /\ HoldsQuestion(j) => HasToken(ret[p].output, QuestionRendering[1])
                    /\ (HoldsTopics(j) /\ "question" \notin j.keys
                        /\ \A i \in 1..Len(first_topics(j.topics)) : j.topics[i].kind = "ok")
                          => HasToken(ret[p].output, ProgressRendering(<<>>)[1])

----------------------------------------------------------------------------
(* C23 *)

\* the first line of each of the two renderings
RenderingHeaders == {QuestionRendering[1], ProgressRendering(<<>>)[1]}

\* the renderings of an answer, in the order they appear
HeadersOf(output) == SelectSeq(output, LAMBDA tok : tok \in RenderingHeaders)

\* the payload of a tool result has the key a rendering is made from
CanYield(result, header) ==
    IF header = QuestionRendering[1] THEN "question" \in result.result.json.keys
    ELSE "analytics" \in result.result.json.keys

RECURSIVE OnePerSucceededResult(_, _)
\* the renderings can be assigned, in order, to distinct tool results marked
\* success = true, each to a result with the payload it is made from
OnePerSucceededResult(headers, tool_results) ==
    \/ headers = <<>>
    \/ /\ tool_results # <<>>
       /\ \/ /\ Head(tool_results).success
             /\ CanYield(Head(tool_results), Head(headers))
             /\ OnePerSucceededResult(Tail(headers), Tail(tool_results))
          \/ OnePerSucceededResult(headers, Tail(tool_results))

\* the topic names listed under the progress rendering that starts at i
ListedTopics(output, i) ==
    LET stops == {m \in (i + 1)..Len(output) : output[m] \in RenderingHeaders}
        last == IF stops = {} THEN Len(output)
                ELSE (CHOOSE m \in stops : \A n \in stops : m <= n) - 1
    IN  SubSeq(output, i + 1, last)

\* C23: the renderings of an answer belong, in tool-result order and at most
\* one per result, to tool results marked success = true, and a progress
\* rendering lists at most 5 topics, the first ones of a succeeded payload.
C23_RenderingsOnlyForSucceeded ==
    \A p \in Callers :
        (ret[p].returned /\ ~ret[p].error) =>
            /\ OnePerSucceededResult(HeadersOf(ret[p].output), ret[p].tool_results)
            /\ \A i \in 1..Len(ret[p].output) :
                  ret[p].output[i] = ProgressRendering(<<>>)[1] =>
                      /\ Len(ListedTopics(ret[p].output, i)) <= 5
                      /\ \E k \in 1..Len(ret[p].tool_results) :
                            LET r == ret[p].tool_results[k]
                                topics == r.result.json.topics
                            IN  /\ r.success
                                /\ IsPrefix(ListedTopics(ret[p].output, i),
                                            [n \in 1..Len(topics) |-> topics[n].topic])

\* a failed result that quotes a payload gets no rendering, and the six-topic
\* payload after it is rendered with its first five topics
C23_Witness ==
    \E p \in Callers :
        /\ ret[p].returned /\ ~ret[p].error
        /\ Len(ret[p].tool_results) = 2
        /\ ~ret[p].tool_results[1].success
        /\ HoldsQuestion(ret[p].tool_results[1].result.json)
        /\ ret[p].tool_results[2].success
        /\ Len(ret[p].tool_results[2].result.json.topics) = 6
        /\ ret[p].output = <<"answer", "Your Learning Progress:", "Grammar", "Vocabulary",
                              "Reading", "Idioms", "Spelling">>

----------------------------------------------------------------------------
(* C24 *)

\* the runs that completed on a thread after executing at least one tool
RanTools(log, key) ==
    {i \in CompletedOn(log, key) : log[i].planner_call.next_action = "execute_tools"}

\* C24: a run enters the planner with plan unset, tool_results empty and, as
\* messages, the thread's stored turns followed by one new user turn; a run
\* routed to respond_directly reaches the responder, and returns, with no tool
\* results, whatever earlier runs on the thread executed.
C24_FreshStatePerRun ==
    \A p \in Callers :
        /\ pc[p] = "planner" =>
              /\ st[p].plan = NoPlan
              /\ st[p].tool_results = <<>>
              /\ \E question \in SessionEnv.requests :
                    Turns(st[p].messages) =
                        Turns(session_histories[ThreadOf(st[p])]) \o <<UserTurn(<<question>>)>>
        /\ (pc[p] \in {"responder", "returning"} /\ st[p].next_action = "respond_directly") =>
              st[p].tool_results = <<>>
        /\ (pc[p] = "returning" /\ st[p].next_action = "respond_directly") =>
              SynthesisCall(p).tool_results = 0

\* a run answers directly on a thread where an earlier run executed a tool
C24_Witness ==
    \E p \in Callers :
        /\ pc[p] = "returning"
        /\ st[p].next_action = "respond_directly"
        /\ RanTools(run_log, ThreadOf(st[p])) # {}
        /\ st[p].tool_results = <<>>

----------------------------------------------------------------------------
(* C25 *)

\* the ids of the messages of a list
Ids(messages) == {messages[i].id : i \in 1..Len(messages)}

\* C25: when a run returns successfully, its last two messages are a user turn
\* and an assistant turn that the run itself added (neither is in the stored
\* history), the returned output is the content of that assistant turn, which
\* becomes the last turn of the thread, and the planner's and the responder's
\* model calls were both made on that user turn.
C25_OutputIsThisRunsAnswer ==
    [][ \A p \in Callers :
          (pc[p] = "returning" /\ pc'[p] = "idle") =>
             LET messages == st[p].messages
                 n == Len(messages)
                 key == ThreadOf(st[p])
                 stored == session_histories[key]
                 saved == session_histories'[key]
             IN  /\ n >= 2
                 /\ messages[n].type = "ai" /\ messages[n].id \notin Ids(stored)
                 /\ messages[n - 1].type = "human" /\ messages[n - 1].id \notin Ids(stored)
                 /\ ret'[p].output = messages[n].content
                 /\ saved[Len(saved)] = messages[n]
                 /\ Len(llm_calls[p]) = 2
                 /\ llm_calls[p][1].node = "planner"
                 /\ llm_calls[p][2].node = "responder"
                 /\ \A c \in 1..2 : llm_calls[p][c].question = messages[n - 1].content
      ]_vars

\* the second run on a thread has returned an answer to its own question that
\* differs from the first run's answer
C25_Witness ==
    \E p \in Callers :
        /\ pc[p] = "idle" /\ ret[p].returned /\ ~ret[p].error
        /\ Len(run_log) = 2
        /\ run_log[1].completed /\ run_log[2].completed
        /\ run_log[1].key = run_log[2].key
        /\ run_log[1].question # run_log[2].question
        /\ run_log[1].output # run_log[2].output
        /\ ret[p].output = run_log[2].output
        /\ llm_calls[p][2].question = run_log[2].question

----------------------------------------------------------------------------
(* C26 *)

\* the planner of the current run adopted the plan of the model's reply
AdoptedModelPlan(p) == Planned(p) /\ llm_calls[p] # <<>> /\ ~UsedFallback(p)

\* C26: for every plan adopted from the model with needs_tools true and a
\* non-empty tools_to_use, whatever its entries are, no exception leaves the
\* executor, the executor ends with one result per entry, and the run returns
\* through the responder with its turns stored.
C26_MalformedEntriesNeverAbort ==
    \A p \in Callers :
        /\ (AdoptedModelPlan(p) /\ st[p].next_action = "execute_tools") =>
              /\ pc[p] # "except"
              /\ pc[p] \in {"responder", "returning"} =>
                    Len(st[p].tool_results) = Len(get_tools_to_use(st[p].plan))
        /\ (ret[p].returned /\ planner_call_of(llm_calls[p]).next_action = "execute_tools") =>
              /\ ~ret[p].error
              /\ LastRun.completed
              /\ Len(llm_calls[p]) = 2

\* the entries the executor does isolate: an entry without tool_name and
\* without parameters gets one failed result naming the tool None, and a plan
\* none of whose entries is a non-object or has non-mapping parameters yields
\* one result per entry and reaches the responder
C26_WellTypedEntriesAreIsolated ==
    \A p \in Callers :
        /\ \A k \in 1..Len(results[p]) :
              results[p][k].tool_name = "None" =>
                  /\ ~results[p][k].success
                  /\ HasToken(results[p][k].result.toks, "None")
        /\ (AdoptedModelPlan(p) /\ st[p].next_action = "execute_tools"
             /\ \A i \in 1..Len(get_tools_to_use(st[p].plan)) :
                   ~entry_aborts(get_tools_to_use(st[p].plan)[i])) =>
              /\ pc[p] # "except"
              /\ pc[p] \in {"responder", "returning"} =>
                    Len(st[p].tool_results) = Len(get_tools_to_use(st[p].plan))

----------------------------------------------------------------------------
(* C27 *)

\* the finished runs made for a pair of identifiers
RunsOf(log, user_id, session_id) ==
    {i \in 1..Len(log) : log[i].user_id = user_id /\ log[i].session_id = session_id}

\* C27: requests with different (user_id, session_id) pairs never share a
\* stored history: different pairs have different session keys, a run that
\* starts for a pair no earlier run was made for loads no turn, and the
\* history a run stores holds only questions asked for its own pair.
C27_PairsNeverShareHistory ==
    \A p \in Callers :
        /\ \A i \in 1..Len(run_log) :
              (pc[p] # "idle"
               /\ <<run_log[i].user_id, run_log[i].session_id>>
                      # <<st[p].user_id, st[p].session_id>>)
                 => run_log[i].key # ThreadOf(st[p])
        /\ (pc[p] = "planner" /\ RunsOf(run_log, st[p].user_id, st[p].session_id) = {})
              => Len(st[p].messages) = 1
        /\ pc[p] = "returning" =>
              Len(st[p].messages) =
                  2 * Cardinality({i \in RunsOf(run_log, st[p].user_id, st[p].session_id) :
                                      run_log[i].completed}) + 2

\* a second run for another pair of identifiers has loaded a history
C27_DifferentPairSameKey ==
    \E p \in Callers :
        /\ pc[p] = "planner"
        /\ Len(run_log) = 1
        /\ <<run_log[1].user_id, run_log[1].session_id>> # <<st[p].user_id, st[p].session_id>>
        /\ Len(st[p].messages) = 3

----------------------------------------------------------------------------
(* C28 *)

\* the capabilities that read or write the data of one user
NeedsUserIdentity == {"get_practice_question", "get_learning_progress"}

\* C28: when the planner fell back and the fallback plan names
\* get_practice_question or get_learning_progress, the capability is invoked
\* with the user_id of the user who made the request.
C28_FallbackInvokesForRequestingUser ==
    \A p \in Callers :
        (pc[p] \in {"executor", "responder", "returning"} /\ UsedFallback(p)) =>
            \A c \in 1..Len(calls[p]) :
                calls[p][c].tool_name \in NeedsUserIdentity =>
                    calls[p][c].parameters.map["user_id"] = st[p].user_id

\* the fallback's document search, planned without user_id, is invoked with
\* the requesting user's id
C28_SearchGetsRequestingUser ==
    \A p \in Callers :
        (pc[p] \in {"executor", "responder", "returning"} /\ UsedFallback(p)) =>
            \A c \in 1..Len(calls[p]) :
                calls[p][c].tool_name = "english_search_document" =>
                    calls[p][c].parameters.map["user_id"] = st[p].user_id

----------------------------------------------------------------------------
(* C29 *)

RECURSIVE TurnsOfCompletedRuns(_, _)
\* the user and assistant turns of the runs that completed on thread key
TurnsOfCompletedRuns(log, key) ==
    IF log = <<>> THEN <<>>
    ELSE LET r == Head(log) IN
         (IF r.key = key /\ r.completed
          THEN <<UserTurn(r.question), AssistantTurn(r.output)>>
          ELSE <<>>)
         \o TurnsOfCompletedRuns(Tail(log), key)

\* the messages a run loaded from the store: all but its own user turn
LoadedBy(state) == SubSeq(state.messages, 1, Len(state.messages) - 1)

\* C29: when a run is aborted by an error inside the workflow, the stored
\* histories are left as they are and the thread holds exactly the turns
\* the run loaded at its start; a run that starts on the thread after an
\* aborted one loads the turns of the completed runs only.
C29_AbortedRunStoresNothing ==
    [][ \A p \in Callers :
          /\ (pc[p] = "except" /\ pc'[p] = "idle") =>
                /\ session_histories' = session_histories
                /\ Turns(session_histories'[ThreadOf(st[p])]) = Turns(LoadedBy(st[p]))
                /\ ret'[p].error /\ ret'[p].chat_history = <<>>
          /\ (pc[p] = "idle" /\ pc'[p] = "planner"
              /\ run_log # <<>> /\ ~LastRun.completed /\ LastRun.key = ThreadOf(st'[p])) =>
                Turns(LoadedBy(st'[p])) = TurnsOfCompletedRuns(run_log, ThreadOf(st'[p]))
      ]_vars

\* a run was aborted on a thread that held the two turns of a completed run,
\* and the thread still holds exactly those
C29_Witness ==
    \E p \in Callers :
        /\ pc[p] = "idle" /\ ret[p].returned /\ ret[p].error
        /\ Len(run_log) = 2
        /\ run_log[1].completed /\ ~run_log[2].completed
        /\ run_log[1].key = run_log[2].key
        /\ Turns(session_histories[run_log[2].key]) =
              <<UserTurn(run_log[1].question), AssistantTurn(run_log[1].output)>>

\* a run has started on a thread whose only earlier run was aborted, with
\* nothing but its own user turn
C29_ResumesAfterAbort ==
    \E p \in Callers :
        /\ pc[p] = "planner"
        /\ Len(run_log) = 1 /\ ~run_log[1].completed
        /\ run_log[1].key = ThreadOf(st[p])
        /\ Len(st[p].messages) = 1

----------------------------------------------------------------------------
(* C30 *)

\* the counters of a user on a topic; no row reads as zero
TotalQuestions(user_id, topic) ==
    IF <<user_id, topic>> \in DOMAIN user_performance
    THEN user_performance[<<user_id, topic>>].total_questions ELSE 0

CorrectAnswers(user_id, topic) ==
    IF <<user_id, topic>> \in DOMAIN user_performance
    THEN user_performance[<<user_id, topic>>].correct_answers ELSE 0

\* C30: each answer accepted by submit_practice_answer adds exactly one to
\* the user's total_questions on the question's topic and one to
\* correct_answers exactly when the answer is correct: after k accepted answers
\* on a topic total_questions is k and correct_answers is the number of
\* correct ones.
C30_OneCountPerAcceptedAnswer ==
    \A user_id \in PracticeUsers, topic \in QuestionTopics :
        /\ TotalQuestions(user_id, topic) = accepted_answers[<<user_id, topic>>].answers
        /\ CorrectAnswers(user_id, topic) = accepted_answers[<<user_id, topic>>].correct

\* what the code keeps: two counts per accepted answer on a topic that is a
\* row of the table topics, none on any other topic
C30_CountedTwiceOrNotAtAll ==
    \A user_id \in PracticeUsers, topic \in QuestionTopics :
        LET k == accepted_answers[<<user_id, topic>>] IN
        IF topic \in TopicTable
        THEN /\ TotalQuestions(user_id, topic) = 2 * k.answers
             /\ CorrectAnswers(user_id, topic) = 2 * k.correct
        ELSE /\ TotalQuestions(user_id, topic) = 0
             /\ CorrectAnswers(user_id, topic) = 0
====
